---- MODULE Spec2Model ----
(***************************************************************************)
(* A model of pyctrl's reference controller: the control algorithms, the   *)
(* periodic loop and its wraparound data logger (src/python/Controller.py) *)
(* and the TCP command session (src/python/TCPServerFile.py).              *)
(*                                                                         *)
(* Numbers.  Python numbers are modelled as exact rationals <<n, d>> in    *)
(* lowest terms with d > 0.  Where Python's float result is exact (sums,   *)
(* products and halves of small integers) the two agree; elsewhere the     *)
(* model keeps the exact quotient and Python the nearest double.           *)
(***************************************************************************)
EXTENDS Integers, Sequences, FiniteSets, TLC

\* --------------------------------------------------------------- bounds
\* Most timer firings (ticks) explored in one behaviour.
MaxTicks == 3
\* Most calls of the Controller's methods, start and stop aside, in one
\* behaviour.
MaxCalls == 1
\* Most updates applied to one algorithm object in SpecAlgo.
MaxUpdates == 4
\* Most frames the session reads from its stream in one behaviour.
MaxFrames == 3
\* Most Timer objects alive at once.
MaxTimers == 3
\* Most calls of start() and stop() by the calling thread in SpecThreads.
MaxOps == 2
\* Most timer firings in one behaviour of SpecThreads.
MaxFires == 2
\* Most calls of the logger's methods and set_period in one behaviour of
\* SpecLogger.
MaxLogCalls == 2
\* Most configuration calls and attribute assignments in one behaviour of
\* SpecTick.
MaxTickCalls == 2
\* Most configuration calls in one behaviour of SpecFault.
MaxFaultCalls == 2

\* ------------------------------------------------------------- numbers
Abs(i) == IF i < 0 THEN -i ELSE i

RECURSIVE GCD(_, _)
GCD(a, b) == IF b = 0 THEN a ELSE GCD(b, a % b)

\* The rational n/d (d # 0) in lowest terms with a positive denominator.
Rat(n, d) ==
  LET s == IF d < 0 THEN -1 ELSE 1
      g == GCD(Abs(n), Abs(d))
  IN  <<(s * n) \div g, (s * d) \div g>>

N(i) == <<i, 1>>
Zero == N(0)

RAdd(a, b) == Rat(a[1] * b[2] + b[1] * a[2], a[2] * b[2])
RSub(a, b) == Rat(a[1] * b[2] - b[1] * a[2], a[2] * b[2])
RMul(a, b) == Rat(a[1] * b[1], a[2] * b[2])
\* a / b; Python raises ZeroDivisionError when b = 0, which callers test first.
RDiv(a, b) == Rat(a[1] * b[2], a[2] * b[1])
RNeg(a)    == <<-a[1], a[2]>>
RLt(a, b)  == a[1] * b[2] < b[1] * a[2]
RLe(a, b)  == a[1] * b[2] <= b[1] * a[2]
\* Python's min(a, b) and max(a, b): the first argument unless the second is
\* strictly smaller (larger).
RMin(a, b) == IF RLt(b, a) THEN b ELSE a
RMax(a, b) == IF RLt(a, b) THEN b ELSE a
\* Python's int(): truncation toward zero.
Trunc(a) == IF a[1] >= 0 THEN a[1] \div a[2] ELSE -((-a[1]) \div a[2])

\* ---------------------------------------------------------- algorithms
\* Algorithm objects.  NoAlgorithm is Python's None.
NoAlgorithm == [kind |-> "None"]
OpenLoop    == [kind |-> "OpenLoop"]
ProportionalController(Kp, gamma) ==
  [kind |-> "Proportional", Kp |-> Kp, gamma |-> gamma]
PIDController(Kp, Ki, Kd, gamma) ==
  [kind |-> "PID", Kp |-> Kp, Ki |-> Ki, Kd |-> Kd, gamma |-> gamma,
   error |-> Zero, ierror |-> Zero]
VelocityController(controller) ==
  [kind |-> "Velocity", measurement |-> Zero, velocity |-> Zero,
   controller |-> controller]

\* error = gamma * reference - measurement
ErrorOf(alg, measurement, reference) ==
  RSub(RMul(alg.gamma, reference), measurement)

\* An integral by the rectangle rule: self.ierror + period * error.
PIDIntegralRectangle(ierror, period, error, prevError) ==
  RAdd(ierror, RMul(period, error))

\* self.ierror + period * (error + self.error) / 2
PIDIntegral(ierror, period, error, prevError) ==
  RAdd(ierror, RDiv(RMul(period, RAdd(error, prevError)), N(2)))

\* (error - self.error) / period
PIDDerivative(period, error, prevError) == RDiv(RSub(error, prevError), period)

\* A velocity that forgets the previous measurement: measurement / period.
VelocityOfPosition(measurement, prevMeasurement, period) ==
  RDiv(measurement, period)

\* (measurement - self.measurement) / period
VelocityOf(measurement, prevMeasurement, period) ==
  RDiv(RSub(measurement, prevMeasurement), period)

\* alg.update(measurement, reference, period): <<value returned, object after>>.
\* The period is nonzero (a zero period raises ZeroDivisionError in PID and
\* Velocity; the callers of this operator test it first).
RECURSIVE update(_, _, _, _)
update(alg, measurement, reference, T) ==
  CASE alg.kind = "OpenLoop" -> <<reference, alg>>
    [] alg.kind = "Proportional" ->
         <<RMul(alg.Kp, ErrorOf(alg, measurement, reference)), alg>>
    [] alg.kind = "PID" ->
         LET error  == ErrorOf(alg, measurement, reference)
             de     == PIDDerivative(T, error, alg.error)
             ierror == PIDIntegral(alg.ierror, T, error, alg.error)
         IN  <<RAdd(RAdd(RMul(alg.Kp, error), RMul(alg.Ki, ierror)),
                    RMul(alg.Kd, de)),
               [alg EXCEPT !.ierror = ierror, !.error = error]>>
    [] alg.kind = "Velocity" ->
         LET velocity == VelocityOf(measurement, alg.measurement, T)
             inner    == update(alg.controller, velocity, reference, T)
         IN  <<inner[1],
               [alg EXCEPT !.velocity = velocity, !.measurement = measurement,
                           !.controller = inner[2]]>>

\* ------------------------------------------------------ controller state
VARIABLES
  \* Controller fields (Controller.__init__)
  period, echo, echo_counter, timer, is_running,
  data, page, current, time_origin,
  motor1_pwm, motor1_dir, motor2_pwm, motor2_dir,
  controller1, controller2,
  reference1_mode, reference1, reference2_mode, reference2,
  \* environment: the last reading of time.clock(), and the live Timer objects
  \* (timer id -> "created" | "waiting" | "running" | "cancelled" | "finished")
  clock, timers,
  \* threads: the Timer threads executing _run, and the calling thread
  thr, main,
  \* the TCP session: loop status, frames written, frames read so far,
  \* whether finish() has closed the stream files
  session, wfile, nread, files_closed,
  \* history: rows appended since the last reset, ticks fired, configuration
  \* calls made, the last session loop iteration, the last get_log() result
  \* and the update calls applied directly to controller1
  hist, ticks, calls, last, snapshot, applied

ctlLoop   == <<period, echo, echo_counter, timer, is_running>>
ctlLog    == <<data, page, current, time_origin>>
ctlMotor  == <<motor1_pwm, motor1_dir, motor2_pwm, motor2_dir>>
ctlAlg    == <<controller1, controller2>>
ctlRef    == <<reference1_mode, reference1, reference2_mode, reference2>>
ctlVars   == <<ctlLoop, ctlLog, ctlMotor, ctlAlg, ctlRef>>
envVars   == <<clock, timers>>
thrVars   == <<thr, main>>
sessVars  == <<session, wfile, nread, files_closed, last>>
vars      == <<ctlVars, envVars, thrVars, sessVars, hist, ticks, calls, snapshot,
               applied>>

\* A log row of zeros (numpy.zeros).
ZeroRow == <<Zero, Zero, Zero, Zero, Zero, Zero, Zero>>
ZeroRows(n) == [i \in 1..n |-> ZeroRow]

\* data.shape[0]
Capacity == Len(data)

\* int(duration / self.period) rows allocated by set_logger
LoggerRows(duration, T) == Trunc(RDiv(duration, T))

\* The duration Controller.__init__ passes to set_logger: 60. / period
InitDuration(T) == RDiv(N(60), T)

\* ----------------------------------------------------------- input sets
\* Periods given to Controller(period): they allocate 3, 2, 2 and 1 log rows.
Periods == {N(4), Rat(9, 2), N(5), N(6)}
\* Values given to set_period.
NewPeriods == {Zero, N(2)}
\* Durations given to set_logger.
Durations == {N(2), N(4)}
\* Values given to set_reference1 and set_reference2.
References == {N(-150), N(150)}
\* Values given to set_echo.
Echoes == {0, 2}
\* Algorithms given to set_controller1 and set_controller2.
Algorithms ==
  { NoAlgorithm, OpenLoop,
    ProportionalController(N(2), N(1)),
    PIDController(Rat(1, 2), N(1), N(1), N(1)),
    VelocityController(ProportionalController(N(1), N(1))) }
\* Readings of read_sensors(): (encoder1, pot1, encoder2, pot2), within
\* randint(0, 65355) and randint(0, 4095).
SensorReadings == { <<0, 0, 0, 0>>, <<120, 7, 30, 4095>> }

\* --------------------------------------------------------------- timers
NoTimer == 0
TimerIds == 1..MaxTimers
\* The identity of a new Timer object: the least id no live object has.
FreshId(live) == CHOOSE i \in TimerIds \ live : \A j \in TimerIds \ live : i <= j
NewId == FreshId(DOMAIN timers)

\* Timer objects still reachable: referenced by self._timer, or alive as a
\* thread (waiting for its interval or running its function).
Collect(ts, ref) ==
  LET keep == {i \in DOMAIN ts : i = ref \/ ts[i] \in {"waiting", "running"}}
  IN  [i \in keep |-> ts[i]]

\* Timer.cancel(): sets the finished event; a timer whose function already
\* runs is not affected.
Cancel(ts, t) ==
  IF t \in DOMAIN ts /\ ts[t] \in {"created", "waiting"}
  THEN [ts EXCEPT ![t] = "cancelled"] ELSE ts

Waiting == {t \in DOMAIN timers : timers[t] = "waiting"}
Running == {t \in DOMAIN timers : timers[t] = "running"}

\* ------------------------------------------------------------ tick body
\* A reference that is the software reference in either mode.
ReferenceSoftwareOnly(mode, pot, ref) == ref

\* reference = pot if the mode is set, the software reference otherwise
Reference(mode, pot, ref) == IF mode # 0 THEN N(pot) ELSE ref

\* A saturation that bounds the positive side only.
ClampPositiveOnly(v) == IF RLt(Zero, v) THEN RMin(v, N(100)) ELSE v

\* The saturation in _run: min(v, 100) for v > 0, max(v, -100) otherwise.
Clamp(v) == IF RLt(Zero, v) THEN RMin(v, N(100)) ELSE RMax(v, N(-100))

\* set_motorN_pwm(value): magnitude and direction
set_motor_pwm(value) ==
  IF RLt(Zero, value) THEN [pwm |-> value, dir |-> 1]
                      ELSE [pwm |-> RNeg(value), dir |-> -1]

\* One channel of the tick: update the bound algorithm, clamp, drive the motor.
\* Without an algorithm the pwm stays 0 and the motor is not touched.
Channel(alg, encoder, reference, T, mpwm, mdir) ==
  IF alg = NoAlgorithm
  THEN [pwm |-> Zero, alg |-> alg, mpwm |-> mpwm, mdir |-> mdir]
  ELSE LET u == update(alg, N(encoder), reference, T)
           v == Clamp(u[1])
           m == set_motor_pwm(v)
       IN  [pwm |-> v, alg |-> u[2], mpwm |-> m.pwm, mdir |-> m.dir]

\* The cursor after one row is written at cur: <<current, page>>.
Advance(cur, pg, cap) ==
  IF cur < cap - 1 THEN <<cur + 1, pg>> ELSE <<0, pg + 1>>

\* The echo counter after a tick: divmod, then += 1, only when echo is set.
EchoCount(e, counter) == IF e # 0 THEN (counter % e) + 1 ELSE counter

\* A get_log() that stacks the two slices the other way round.
get_log_swapped ==
  IF page = 0 THEN SubSeq(data, 1, current)
  ELSE SubSeq(data, 1, current) \o SubSeq(data, current + 1, Len(data))

\* get_log(): the rows oldest first
get_log ==
  IF page = 0 THEN SubSeq(data, 1, current)
  ELSE SubSeq(data, current + 1, Len(data)) \o SubSeq(data, 1, current)

\* ---------------------------------------------------------------- Init
\* time.clock() read again: a value not before the last one.
ClockSteps == {1}
ClockReadings == {clock + d : d \in ClockSteps}

\* update raises ZeroDivisionError: PID and Velocity divide by the period.
UpdateFails(alg, T) == T = Zero /\ alg.kind \in {"PID", "Velocity"}

NoIteration == [frames |-> <<>>, called |-> "", written |-> <<>>]
IdleThread  == [pc |-> "idle", done |-> "", ops |-> 0]

\* Threads and session at rest: the parts a specification does not exercise.
ThreadsAtRest == thr = << >> /\ main = IdleThread
SessionAtRest ==
  /\ session = "none" /\ wfile = <<>> /\ nread = 0 /\ files_closed = FALSE
  /\ last = NoIteration

\* Controller(period = T, echo = 0)
Constructed(T) ==
  /\ period = T /\ echo = 0 /\ echo_counter = 0
  /\ timer = NoTimer /\ is_running = FALSE
  /\ data = ZeroRows(LoggerRows(InitDuration(T), T))
  /\ page = 0 /\ current = 0 /\ time_origin = 0
  /\ motor1_pwm = Zero /\ motor1_dir = 1
  /\ motor2_pwm = Zero /\ motor2_dir = 1
  /\ controller1 = OpenLoop /\ controller2 = NoAlgorithm
  /\ reference1_mode = 0 /\ reference1 = Zero
  /\ reference2_mode = 0 /\ reference2 = Zero
  /\ clock = 0 /\ timers = << >>
  /\ hist = <<>> /\ ticks = 0 /\ calls = 0 /\ snapshot = <<>> /\ applied = <<>>

Init ==
  /\ \E T \in Periods : Constructed(T)
  /\ ThreadsAtRest
  /\ SessionAtRest

\* ------------------------------------------- the Controller, one caller
\* _start(): arm a Timer unless the loop is flagged running.
StartTimer ==
  IF ~is_running
  THEN LET id == NewId
       IN  /\ timers' = Collect((id :> "waiting") @@ timers, id)
           /\ timer' = id
           /\ is_running' = TRUE
  ELSE UNCHANGED <<timers, timer, is_running>>

\* start(): prints the header when echo is set, then _start().
start ==
  /\ StartTimer
  /\ UNCHANGED <<period, echo, echo_counter, ctlLog, ctlMotor, ctlAlg, ctlRef,
                 clock, thrVars, sessVars, hist, ticks, calls, snapshot, applied>>

\* stop(): self._timer.cancel() raises AttributeError before start() was ever
\* called (self._timer is None) and then changes nothing.
stop ==
  /\ IF timer = NoTimer
     THEN UNCHANGED <<timers, is_running>>
     ELSE /\ timers' = Cancel(timers, timer)
          /\ is_running' = FALSE
  /\ UNCHANGED <<period, echo, echo_counter, timer, ctlLog, ctlMotor, ctlAlg,
                 ctlRef, clock, thrVars, sessVars, hist, ticks, calls, snapshot, applied>>

\* A tick that arms its successor after its body: a fault in the body leaves
\* no timer behind.
TickArmsLast(t, sens, ts) ==
  /\ t \in Waiting
  /\ ticks < MaxTicks
  /\ ticks' = ticks + 1
  /\ clock' = ts
  /\ LET id   == FreshId(DOMAIN timers \ {t})
         ref1 == Reference(reference1_mode, sens[2], reference1)
         ref2 == Reference(reference2_mode, sens[4], reference2)
         f1   == UpdateFails(controller1, period)
         ch1  == Channel(controller1, sens[1], ref1, period, motor1_pwm, motor1_dir)
         f2   == f1 \/ UpdateFails(controller2, period)
         ch2  == Channel(controller2, sens[3], ref2, period, motor2_pwm, motor2_dir)
         row  == <<N(ts), N(sens[1]), ref1, ch1.pwm, N(sens[3]), ref2, ch2.pwm>>
         f3   == f2 \/ current >= Capacity
         adv  == Advance(current, page, Capacity)
     IN  /\ IF f1 THEN UNCHANGED <<controller1, motor1_pwm, motor1_dir>>
               ELSE /\ controller1' = ch1.alg
                    /\ motor1_pwm' = ch1.mpwm /\ motor1_dir' = ch1.mdir
         /\ IF f2 THEN UNCHANGED <<controller2, motor2_pwm, motor2_dir>>
               ELSE /\ controller2' = ch2.alg
                    /\ motor2_pwm' = ch2.mpwm /\ motor2_dir' = ch2.mdir
         /\ IF f3
            THEN /\ timers' = [timers EXCEPT ![t] = "finished"]
                 /\ UNCHANGED <<timer, is_running, data, current, page,
                                echo_counter, hist>>
            ELSE /\ timers' = (id :> "waiting")
                                @@ Collect([timers EXCEPT ![t] = "finished"], id)
                 /\ timer' = id
                 /\ is_running' = TRUE
                 /\ data' = [data EXCEPT ![current + 1] = row]
                 /\ current' = adv[1] /\ page' = adv[2]
                 /\ echo_counter' = EchoCount(echo, echo_counter)
                 /\ hist' = Append(hist, row)
  /\ UNCHANGED <<period, echo, time_origin, ctlRef, thrVars, sessVars, calls,
                 snapshot, applied>>

\* The timer t fires and its thread runs _run to the end before anything else
\* happens: re-arm (is_running = False; _start()), read the sensors, update and
\* clamp both channels, log the row, advance the cursor, echo.
Tick(t, sens, ts) ==
  /\ t \in Waiting
  /\ ticks < MaxTicks
  /\ ticks' = ticks + 1
  /\ clock' = ts
  /\ LET id == FreshId(DOMAIN timers \ {t})
     IN  /\ timers' = (id :> "waiting") @@ Collect([timers EXCEPT ![t] = "finished"], id)
         /\ timer' = id
         /\ is_running' = TRUE
  /\ LET ref1 == Reference(reference1_mode, sens[2], reference1)
         ref2 == Reference(reference2_mode, sens[4], reference2)
         f1   == UpdateFails(controller1, period)
         ch1  == Channel(controller1, sens[1], ref1, period, motor1_pwm, motor1_dir)
         f2   == f1 \/ UpdateFails(controller2, period)
         ch2  == Channel(controller2, sens[3], ref2, period, motor2_pwm, motor2_dir)
         row  == <<N(ts), N(sens[1]), ref1, ch1.pwm, N(sens[3]), ref2, ch2.pwm>>
         \* IndexError: the cursor is outside the rows
         f3   == f2 \/ current >= Capacity
         adv  == Advance(current, page, Capacity)
     IN  /\ IF f1 THEN UNCHANGED <<controller1, motor1_pwm, motor1_dir>>
               ELSE /\ controller1' = ch1.alg
                    /\ motor1_pwm' = ch1.mpwm /\ motor1_dir' = ch1.mdir
         /\ IF f2 THEN UNCHANGED <<controller2, motor2_pwm, motor2_dir>>
               ELSE /\ controller2' = ch2.alg
                    /\ motor2_pwm' = ch2.mpwm /\ motor2_dir' = ch2.mdir
         /\ IF f3 THEN UNCHANGED <<data, current, page, echo_counter, hist>>
               ELSE /\ data' = [data EXCEPT ![current + 1] = row]
                    /\ current' = adv[1] /\ page' = adv[2]
                    /\ echo_counter' = EchoCount(echo, echo_counter)
                    /\ hist' = Append(hist, row)
  /\ UNCHANGED <<period, echo, time_origin, ctlRef, thrVars, sessVars, calls,
                 snapshot, applied>>

\* set_period(value)
set_period(value) ==
  /\ calls' = calls + 1
  /\ period' = value
  /\ UNCHANGED <<echo, echo_counter, timer, is_running, ctlLog, ctlMotor, ctlAlg,
                 ctlRef, envVars, thrVars, sessVars, hist, ticks, snapshot, applied>>

\* A reset that rewinds the cursor and leaves the page count.
reset_logger_cursor_only(ts) ==
  /\ calls' = calls + 1
  /\ current' = 0 /\ time_origin' = ts /\ clock' = ts
  /\ hist' = <<>>
  /\ UNCHANGED <<data, page, ctlLoop, ctlMotor, ctlAlg, ctlRef, timers, thrVars,
                 sessVars, ticks, snapshot, applied>>

\* reset_logger()
reset_logger(ts) ==
  /\ calls' = calls + 1
  /\ page' = 0 /\ current' = 0 /\ time_origin' = ts /\ clock' = ts
  /\ hist' = <<>>
  /\ UNCHANGED <<data, ctlLoop, ctlMotor, ctlAlg, ctlRef, timers, thrVars,
                 sessVars, ticks, snapshot, applied>>

\* set_logger(duration): allocate int(duration / period) zero rows, then reset.
\* With a zero period the division raises and nothing changes.
set_logger(duration, ts) ==
  /\ calls' = calls + 1
  /\ IF period = Zero
     THEN UNCHANGED <<data, page, current, time_origin, clock, hist>>
     ELSE /\ data' = ZeroRows(LoggerRows(duration, period))
          /\ page' = 0 /\ current' = 0 /\ time_origin' = ts /\ clock' = ts
          /\ hist' = <<>>
  /\ UNCHANGED <<ctlLoop, ctlMotor, ctlAlg, ctlRef, timers, thrVars, sessVars,
                 ticks, snapshot, applied>>

\* The caller keeps what get_log() returned.
GetLog ==
  /\ calls' = calls + 1
  /\ snapshot' = get_log
  /\ UNCHANGED <<ctlVars, envVars, thrVars, sessVars, hist, ticks, applied>>

set_controller1(algorithm) ==
  /\ calls' = calls + 1
  /\ controller1' = algorithm
  /\ UNCHANGED <<ctlLoop, ctlLog, ctlMotor, controller2, ctlRef, envVars,
                 thrVars, sessVars, hist, ticks, snapshot, applied>>

set_controller2(algorithm) ==
  /\ calls' = calls + 1
  /\ controller2' = algorithm
  /\ UNCHANGED <<ctlLoop, ctlLog, ctlMotor, controller1, ctlRef, envVars,
                 thrVars, sessVars, hist, ticks, snapshot, applied>>

set_reference1(value) ==
  /\ calls' = calls + 1
  /\ reference1' = value
  /\ UNCHANGED <<ctlLoop, ctlLog, ctlMotor, ctlAlg, reference1_mode,
                 reference2_mode, reference2, envVars, thrVars, sessVars, hist,
                 ticks, snapshot, applied>>

set_reference2(value) ==
  /\ calls' = calls + 1
  /\ reference2' = value
  /\ UNCHANGED <<ctlLoop, ctlLog, ctlMotor, ctlAlg, reference1_mode, reference1,
                 reference2_mode, envVars, thrVars, sessVars, hist, ticks,
                 snapshot, applied>>

\* set_echo(value): self.echo = int(value)
set_echo(value) ==
  /\ calls' = calls + 1
  /\ echo' = value
  /\ UNCHANGED <<period, echo_counter, timer, is_running, ctlLog, ctlMotor,
                 ctlAlg, ctlRef, envVars, thrVars, sessVars, hist, ticks,
                 snapshot, applied>>

\* The caller has calls left in this behaviour.
MayCall == calls < MaxCalls

Next ==
  \/ start
  \/ stop
  \/ \E t \in Waiting, sens \in SensorReadings, ts \in ClockReadings :
       Tick(t, sens, ts)
  \/ MayCall /\ \E v \in NewPeriods : set_period(v)
  \/ MayCall /\ \E ts \in ClockReadings : reset_logger(ts)
  \/ MayCall /\ \E d \in Durations, ts \in ClockReadings : set_logger(d, ts)
  \/ MayCall /\ GetLog
  \/ MayCall /\ \E a \in Algorithms : set_controller1(a)
  \/ MayCall /\ \E a \in Algorithms : set_controller2(a)
  \/ MayCall /\ \E v \in References : set_reference1(v)
  \/ MayCall /\ \E v \in References : set_reference2(v)
  \/ MayCall /\ \E v \in Echoes : set_echo(v)

Spec == Init /\ [][Next]_vars

\* ------------------------------------------------- properties of Spec
\* The timestamps (first column) of rows increase strictly.
Increasing(rows) ==
  \A i \in 1..(Len(rows) - 1) : RLt(rows[i][1], rows[i + 1][1])

\* C7: with capacity c >= 1, after c + k rows (0 <= k < c) with strictly
\* increasing timestamps were appended since the last reset by one caller,
\* get_log() returns exactly c rows, the c most recently appended ones, oldest
\* first, in strictly increasing timestamp order.
C7_WrappedLogIsLastRows ==
  LET c == Capacity
      n == Len(hist)
  IN  (c >= 1 /\ c <= n /\ n < 2 * c /\ Increasing(hist))
        => /\ Len(get_log) = c
           /\ get_log = SubSeq(hist, n - c + 1, n)
           /\ Increasing(get_log)

\* A buffer of 2 rows has wrapped by one row and the caller has its snapshot.
C7_Witness ==
  /\ Capacity = 2 /\ Len(hist) = 3 /\ page = 1 /\ current = 1
  /\ snapshot = get_log /\ Len(snapshot) = 2

Sign(v) == IF RLt(Zero, v) THEN 1 ELSE IF RLt(v, Zero) THEN -1 ELSE 0
RAbs(v) == IF RLt(v, Zero) THEN RNeg(v) ELSE v

\* What a tick that logged the row did with the output v of a channel's
\* algorithm: pwm is the row's actuation, mpwm and mdir the motor after it.
ClampedAs(v, pwm, mpwm, mdir) ==
  /\ RLe(N(-100), pwm) /\ RLe(pwm, N(100))
  /\ (RLe(RAbs(v), N(100)) => pwm = v)
  /\ (v # Zero => Sign(pwm) = Sign(v))
  /\ (v = Zero => pwm = Zero)
  /\ mpwm = RAbs(pwm)
  /\ mdir = (IF RLt(Zero, pwm) THEN 1 ELSE -1)

\* C9: in every tick, for every output v of a channel's algorithm, the
\* actuation lies in [-100, 100], equals v when |v| <= 100, has the sign of v
\* when v # 0 and is 0 when v = 0; that value is the one given to
\* set_motorN_pwm and the one written to the log row.
C9_ClampInTick ==
  [][(ticks' = ticks + 1 /\ Len(hist') = Len(hist) + 1)
       => LET row == hist'[Len(hist')]
          IN  /\ controller1 # NoAlgorithm =>
                   ClampedAs(update(controller1, row[2], row[3], period)[1],
                             row[4], motor1_pwm', motor1_dir')
              /\ controller2 # NoAlgorithm =>
                   ClampedAs(update(controller2, row[5], row[6], period)[1],
                             row[7], motor2_pwm', motor2_dir')]_vars

\* A tick saturated channel 1: reference 150 in open loop was logged and
\* driven as 100.
C9_Witness ==
  /\ hist # <<>>
  /\ LET row == hist[Len(hist)]
     IN  row[3] = N(150) /\ row[4] = N(100)
  /\ controller1 = OpenLoop /\ motor1_pwm = N(100) /\ motor1_dir = 1

\* -------------------------------------------- algorithms called directly
\* A Controller is constructed, a fresh algorithm object is bound with
\* set_controller1, and the caller applies that object's update to chosen
\* inputs, passing the controller's period.
AlgorithmsUnderTest ==
  { OpenLoop,
    ProportionalController(N(2), N(1)),
    PIDController(Rat(1, 2), N(1), N(1), N(1)),
    PIDController(N(1), N(2), Zero, N(2)),
    VelocityController(ProportionalController(N(1), N(1))),
    VelocityController(PIDController(N(1), N(1), Zero, N(1))) }
Measurements    == {N(0), N(30)}
ReferenceInputs == {N(0), N(50)}

InitAlgo ==
  /\ \E T \in Periods, alg \in AlgorithmsUnderTest :
       /\ period = T /\ echo = 0 /\ echo_counter = 0
       /\ timer = NoTimer /\ is_running = FALSE
       /\ data = ZeroRows(LoggerRows(InitDuration(T), T))
       /\ page = 0 /\ current = 0 /\ time_origin = 0
       /\ motor1_pwm = Zero /\ motor1_dir = 1
       /\ motor2_pwm = Zero /\ motor2_dir = 1
       /\ controller1 = alg /\ controller2 = NoAlgorithm
       /\ reference1_mode = 0 /\ reference1 = Zero
       /\ reference2_mode = 0 /\ reference2 = Zero
       /\ clock = 0 /\ timers = << >>
       /\ hist = <<>> /\ ticks = 0 /\ calls = 1 /\ snapshot = <<>>
       /\ applied = <<>>
  /\ ThreadsAtRest
  /\ SessionAtRest

\* controller1.update(measurement, reference, period)
Update(measurement, reference) ==
  /\ Len(applied) < MaxUpdates
  /\ LET u == update(controller1, measurement, reference, period)
     IN  /\ controller1' = u[2]
         /\ applied' = Append(applied, [measurement |-> measurement,
                                        reference |-> reference,
                                        result |-> u[1]])
  /\ UNCHANGED <<ctlLoop, ctlLog, ctlMotor, controller2, ctlRef, envVars,
                 thrVars, sessVars, hist, ticks, calls, snapshot>>

NextAlgo == \E m \in Measurements, r \in ReferenceInputs : Update(m, r)

SpecAlgo == InitAlgo /\ [][NextAlgo]_vars

\* ---------------------------------------------- properties of SpecAlgo
\* Every update applied so far had the error e.
ConstantError(e) ==
  \A i \in 1..Len(applied) :
    ErrorOf(controller1, applied[i].measurement, applied[i].reference) = e

\* C10 as stated: after n >= 1 updates of a fresh PID controller with the same
\* error e and period T, the integral term is e * T * n.
C10_IntegralIsRectangle ==
  (controller1.kind = "PID" /\ Len(applied) >= 1)
    => \A m \in Measurements, r \in ReferenceInputs :
         LET e == ErrorOf(controller1, m, r)
         IN  ConstantError(e)
               => controller1.ierror = RMul(RMul(e, period), N(Len(applied)))

\* C10, amended: after n >= 1 updates of a fresh PID controller (previous
\* error 0, integral 0) with the same error e and period T, the integral term
\* is e * T * (2n - 1) / 2: the first trapezoid has the initial previous
\* error 0 as its left side.
C10_IntegralIsTrapezoid ==
  (controller1.kind = "PID" /\ Len(applied) >= 1)
    => \A m \in Measurements, r \in ReferenceInputs :
         LET e == ErrorOf(controller1, m, r)
         IN  ConstantError(e)
               => controller1.ierror =
                    RDiv(RMul(RMul(e, period), N(2 * Len(applied) - 1)), N(2))

\* Three updates of a PID controller with gamma = 2, all with the error
\* 2 * 50 - 30 = 70, at period 9/2.
C10_Witness ==
  /\ controller1.kind = "PID" /\ controller1.gamma = N(2)
  /\ period = Rat(9, 2)
  /\ Len(applied) = 3
  /\ ConstantError(N(70))
  /\ controller1.error = N(70)

\* ------------------------------------------------------ the TCP session
\* Python values carried by frames: a number is a rational <<n, d>>, a string
\* (and a one-character code) the 1-tuple <<text>>.
Str(text) == <<text>>

\* Packet (Packet.py): a frame is a tag in S, I, F, C, A and a value.
\* pack(tag, value) is what a write of the packed bytes puts on the stream.
pack(tag, value) == [tag |-> tag, value |-> value]

\* unpack_stream on a closed or malformed stream raises the framing error,
\* the NameError that handle() catches around its first read.
FramingError == [tag |-> "", value |-> <<>>]

\* self.commands: code -> (argument type, bound attribute)
commands ==
  ( "e" :> <<"S", "echo">> ) @@
  ( "H" :> <<"", "help">> ) @@
  ( "s" :> <<"", "get_status">> ) @@
  ( "R" :> <<"", "read_sensor">> ) @@
  ( "Z" :> <<"", "set_encoder">> ) @@
  ( "P" :> <<"I", "set_period">> ) @@
  ( "E" :> <<"I", "set_echo_divisor">> ) @@
  ( "L" :> <<"I", "run_loop">> ) @@
  ( "G" :> <<"I", "set_motor_gain">> ) @@
  ( "V" :> <<"", "reverse_motor_direction">> ) @@
  ( "F" :> <<"I", "set_PWM_frequency">> ) @@
  ( "Q" :> <<"I", "set_motor_curve">> ) @@
  ( "M" :> <<"", "start_stop_motor">> ) @@
  ( "T" :> <<"I", "set_target">> ) @@
  ( "B" :> <<"I", "set_target_zero">> ) @@
  ( "O" :> <<"", "read_target_potentiometer">> ) @@
  ( "D" :> <<"I", "set_target_mode">> ) @@
  ( "K" :> <<"F", "set_proportional_gain">> ) @@
  ( "I" :> <<"F", "set_integral_gain">> ) @@
  ( "N" :> <<"F", "set_derivative_gain">> ) @@
  ( "Y" :> <<"I", "control_mode">> ) @@
  ( "C" :> <<"", "start_stop_controller">> ) @@
  ( "r" :> <<"", "read_values">> ) @@
  ( "X" :> <<"", "finish">> )

\* Controller methods that return ('S', text), and those whose body is pass.
TextMethods ==
  { "help", "get_status", "read_sensor", "reverse_motor_direction",
    "start_stop_motor", "read_target_potentiometer", "start_stop_controller",
    "read_values" }
PassMethods ==
  { "set_echo_divisor", "run_loop", "set_motor_gain", "set_PWM_frequency",
    "set_motor_curve", "set_target", "set_target_zero", "set_target_mode",
    "set_proportional_gain", "set_integral_gain", "set_derivative_gain",
    "control_mode" }
\* Methods declared without a parameter besides self.
NoParameter == {"help", "get_status", "read_sensor", "read_values", "finish"}

\* What self.controller.<name> (self.finish for X) is bound to.  The instance
\* attribute self.echo, an int set in Controller.__init__, hides the method
\* echo.  Controller.py defines set_encoder1 and set_encoder2 but no
\* set_encoder.
Bound(name) ==
  CASE name = "echo" -> "int"
    [] name = "finish" -> "finish"
    [] name = "set_encoder" -> "set_encoder"
    [] OTHER -> "method"

NoMessage == <<>>

\* The outcome of a call that raises nothing, returns None and changes nothing.
Nothing ==
  [raises |-> "", message |-> NoMessage, period |-> period, closes |-> FALSE]

\* set_encoder(): zeroes the encoder count and returns nothing.
set_encoder == Nothing

\* A set_period that ignores its argument and keeps the period in force.
PeriodKept(argument) == period

\* set_period(*argument): the value stored in self.period, the parameter's
\* default 0.1 when called without an argument.
PeriodGiven(argument) ==
  IF Len(argument) > 0 THEN argument[1] ELSE Rat(1, 10)

\* function(*argument): the exception raised ("" for none), the message
\* returned, the period afterwards, whether the stream files get closed.
Invoke(name, argument) ==
  CASE Bound(name) = "int" -> [Nothing EXCEPT !.raises = "TypeError"]
    [] Len(argument) > 0 /\ name \in NoParameter ->
         [Nothing EXCEPT !.raises = "TypeError"]
    [] Bound(name) = "finish" -> [Nothing EXCEPT !.closes = TRUE]
    [] Bound(name) = "set_encoder" -> set_encoder
    [] name = "set_period" -> [Nothing EXCEPT !.period = PeriodGiven(argument)]
    [] name \in TextMethods -> [Nothing EXCEPT !.message = <<"S", Str(name)>>]
    [] OTHER -> Nothing

\* A protocol error text that does not name the received tag.
CommandExpectedUntagged(tag) == Str("Command expected")

\* "Command expected, '{}' received".format(type)
CommandExpected(tag) == Str("Command expected, '" \o tag \o "' received")

\* Frames a peer sends.
CommandFrames == {pack("C", Str(c)) : c \in DOMAIN commands \cup {"?"}}
ValueFrames ==
  { pack("I", N(50)), pack("F", Rat(1, 2)), pack("S", Str("hi")),
    pack("A", Str("P")) }
StreamReads == CommandFrames \cup ValueFrames \cup {FramingError}
\* What the read of an argument frame may give: a frame of any type or the
\* framing error.
ArgumentReads == ValueFrames \cup {pack("C", Str("H")), FramingError}
\* Periods of the session's Controller.
SessionPeriods == {N(5)}

\* The frame is a command of the table that takes an argument frame.
TakesArgument(frame) ==
  /\ frame.tag = "C" /\ frame.value[1] \in DOMAIN commands
  /\ commands[frame.value[1]][1] # ""
\* The frame is the command bound to finish().
EndsSession(frame) == frame = pack("C", Str("X"))

\* The session starts with the Controller its handler constructed.  The
\* handler constructs Controller() with the default period .01, which
\* allocates 600000 log rows; the session is explored with the small periods.
InitSession ==
  /\ \E T \in SessionPeriods : Constructed(T)
  /\ ThreadsAtRest
  /\ session = "handling" /\ wfile = <<>> /\ nread = 0 /\ files_closed = FALSE
  /\ last = NoIteration

\* One iteration of the loop of handle().  first is what the read of the
\* command frame gives, second what the read of the argument frame gives when
\* the command takes one, delivered whether a write to wfile still reaches the
\* peer once finish() has closed it (it does with socketserver's unbuffered
\* _SocketWriter of Python 3.6 and later; before, it raises ValueError).
handle(first, second, delivered) ==
  /\ session = "handling"
  /\ nread < MaxFrames
  /\ LET isCommand == first.tag = "C"
         code      == first.value
         known     == isCommand /\ code[1] \in DOMAIN commands
         entry     == commands[code[1]]
         takesArg  == known /\ entry[1] # ""
         argument  == IF takesArg THEN <<second.value>> ELSE <<>>
         call      == Invoke(entry[2], argument)
         \* the exception that leaves the iteration, "" for none
         raised ==
           IF files_closed THEN "ValueError"            \* read of a closed file
           ELSE IF first = FramingError THEN "caught"   \* except NameError: break
           ELSE IF ~isCommand THEN ""
           ELSE IF ~known THEN "ValueError"     \* (argument_type, function) = ''
           ELSE IF takesArg /\ second = FramingError THEN "NameError"
           ELSE call.raises
         invoked == raised = "" /\ known
         message ==
           IF ~isCommand THEN <<"S", CommandExpected(first.tag)>>
           ELSE call.message
         closing == invoked /\ call.closes
         frames ==
           (IF message # NoMessage THEN <<pack(message[1], message[2])>>
            ELSE <<>>) \o <<pack("A", code)>>
         written ==
           IF raised # "" \/ (closing /\ ~delivered) THEN <<>> ELSE frames
         reads ==
           IF files_closed THEN <<>>
           ELSE IF (raised \in {"", "TypeError"} /\ takesArg)
                     \/ raised = "NameError"
                THEN <<first, second>> ELSE <<first>>
     IN  /\ session' = IF raised = "caught" THEN "closed"
                       ELSE IF raised # "" THEN raised
                       ELSE IF closing /\ ~delivered THEN "ValueError"
                       ELSE "handling"
         /\ nread' = nread + Len(reads)
         /\ wfile' = wfile \o written
         /\ files_closed' = (files_closed \/ closing)
         /\ period' = IF invoked THEN call.period ELSE period
         /\ last' = [frames |-> reads,
                     called |-> IF invoked THEN entry[2] ELSE "",
                     written |-> written]
  /\ UNCHANGED <<echo, echo_counter, timer, is_running, ctlLog, ctlMotor,
                 ctlAlg, ctlRef, envVars, thrVars, hist, ticks, calls,
                 snapshot, applied>>

\* The second read and the delivery after finish() are drawn only where the
\* iteration gets to them.
NextSession ==
  \/ \E first \in StreamReads :
       /\ ~TakesArgument(first) /\ ~EndsSession(first)
       /\ handle(first, FramingError, TRUE)
  \/ \E first \in CommandFrames, second \in ArgumentReads :
       /\ TakesArgument(first)
       /\ handle(first, second, TRUE)
  \/ \E first \in CommandFrames, delivered \in BOOLEAN :
       /\ EndsSession(first)
       /\ handle(first, FramingError, delivered)

SpecSession == InitSession /\ [][NextSession]_vars

\* ------------------------------------------- properties of SpecSession
\* The last iteration read a command frame of the table, and its argument
\* frame when the table asks for one.
ProcessedTableCommand ==
  /\ last.frames # <<>>
  /\ last.frames[1].tag = "C"
  /\ last.frames[1].value[1] \in DOMAIN commands
  /\ last.frames[Len(last.frames)] # FramingError

\* C1: after a command frame whose code is in the command table is processed,
\* exactly one Acknowledge frame with that code is written; a response frame,
\* if the operation returned one, is written right before it and nothing else
\* is written.
C1_TableCommandAcknowledged ==
  ProcessedTableCommand
    => LET ack == pack("A", last.frames[1].value)
       IN  \/ last.written = <<ack>>
           \/ /\ Len(last.written) = 2
              /\ last.written[1].tag = "S"
              /\ last.written[2] = ack

\* C2: a command frame whose code is not in the command table runs no
\* operation, gets no response frame, is acknowledged with its code, and the
\* session goes on reading.
C2_UnknownCommandAcknowledged ==
  ( /\ last.frames # <<>>
    /\ last.frames[1].tag = "C"
    /\ last.frames[1].value[1] \notin DOMAIN commands )
    => /\ last.called = ""
       /\ last.written = <<pack("A", last.frames[1].value)>>
       /\ session = "handling"

C4_FramingErrorClosesSession ==
  (last.frames # <<>> /\ last.frames[Len(last.frames)] = FramingError)
    => /\ session = "closed"
       /\ last.written = <<>>

\* ------------------------------------------- the Controller, its threads
\* Every Timer runs _run in a thread of its own (threading.Timer), beside the
\* thread that calls start() and stop().  A step is one statement of the
\* source (self.current += 1 and self.page += 1 are a load and a store); the
\* threads interleave between steps.  A timer may fire at any time after it
\* was started: the body of a tick may take longer than the period.
Main == 0

\* The reading and the period used in SpecThreads.
ThreadSensors == { <<120, 7, 30, 4095>> }
ThreadPeriods == { N(5) }

InitThreads ==
  /\ \E T \in ThreadPeriods : Constructed(T)
  /\ ThreadsAtRest
  /\ SessionAtRest

Local(th) == IF th = Main THEN main ELSE thr[th]
pcOf(th)  == Local(th).pc

\* The thread th goes on at pc with its locals changed to rec.
Goto(th, rec) ==
  IF th = Main THEN main' = rec /\ thr' = thr
  ELSE thr' = [thr EXCEPT ![th] = rec] /\ main' = main

\* Where _start() returns to: the body of _run, or the caller of start().
Return(th) ==
  IF th = Main THEN [main EXCEPT !.pc = "idle", !.done = "start"]
  ELSE [thr[th] EXCEPT !.pc = "body"]

\* The thread th ends: a Timer thread is over (its function returned or
\* raised); in the calling thread the call returns or raises.
Ends(th, ts, ref) ==
  IF th = Main
  THEN /\ main' = [main EXCEPT !.pc = "idle"]
       /\ thr' = thr
       /\ timers' = Collect(ts, ref)
  ELSE /\ thr' = [u \in DOMAIN thr \ {th} |-> thr[u]]
       /\ main' = main
       /\ timers' = Collect([ts EXCEPT ![th] = "finished"], ref)

\* The timer t fires: its thread calls _run.
Fire(t) ==
  /\ t \in Waiting
  /\ ticks < MaxFires
  /\ ticks' = ticks + 1
  /\ timers' = [timers EXCEPT ![t] = "running"]
  /\ thr' = (t :> [pc |-> "run", row |-> ZeroRow, cur |-> 0, pg |-> 0]) @@ thr
  /\ UNCHANGED <<ctlVars, clock, main, sessVars, hist, calls, snapshot, applied>>

\* _run: self.is_running = False
RunFlag(t) ==
  /\ t \in DOMAIN thr /\ thr[t].pc = "run"
  /\ is_running' = FALSE
  /\ Goto(t, [thr[t] EXCEPT !.pc = "start_test"])
  /\ UNCHANGED <<period, echo, echo_counter, timer, ctlLog, ctlMotor, ctlAlg,
                 ctlRef, envVars, sessVars, hist, ticks, calls, snapshot,
                 applied>>

Threads == {Main} \cup DOMAIN thr

\* _start: if not self.is_running
StartTest(th) ==
  /\ th \in Threads /\ pcOf(th) = "start_test"
  /\ IF ~is_running THEN Goto(th, [Local(th) EXCEPT !.pc = "start_new"])
     ELSE Goto(th, Return(th))
  /\ UNCHANGED <<ctlVars, envVars, sessVars, hist, ticks, calls, snapshot,
                 applied>>

\* _start: self._timer = Timer(self.period, self._run)
StartNew(th) ==
  /\ th \in Threads /\ pcOf(th) = "start_new"
  /\ TimerIds \ DOMAIN timers # {}
  /\ LET id == NewId
     IN  /\ timers' = Collect((id :> "created") @@ timers, id)
         /\ timer' = id
  /\ Goto(th, [Local(th) EXCEPT !.pc = "start_start"])
  /\ UNCHANGED <<period, echo, echo_counter, is_running, ctlLog, ctlMotor,
                 ctlAlg, ctlRef, clock, sessVars, hist, ticks, calls, snapshot,
                 applied>>

\* _start: self._timer.start(), on the Timer self._timer refers to now.  A
\* Timer cancelled before it is started never calls its function; starting a
\* Timer a second time raises RuntimeError.
StartStart(th) ==
  /\ th \in Threads /\ pcOf(th) = "start_start"
  /\ IF timers[timer] = "created"
     THEN /\ timers' = [timers EXCEPT ![timer] = "waiting"]
          /\ Goto(th, [Local(th) EXCEPT !.pc = "start_flag"])
     ELSE IF timers[timer] = "cancelled"
     THEN /\ timers' = timers
          /\ Goto(th, [Local(th) EXCEPT !.pc = "start_flag"])
     ELSE Ends(th, timers, timer)
  /\ UNCHANGED <<ctlVars, clock, sessVars, hist, ticks, calls, snapshot,
                 applied>>

\* _start: self.is_running = True
StartFlag(th) ==
  /\ th \in Threads /\ pcOf(th) = "start_flag"
  /\ is_running' = TRUE
  /\ Goto(th, Return(th))
  /\ UNCHANGED <<period, echo, echo_counter, timer, ctlLog, ctlMotor, ctlAlg,
                 ctlRef, envVars, sessVars, hist, ticks, calls, snapshot,
                 applied>>

\* _run: read the sensors and the clock, pick the references, update and
\* clamp both channels and drive the motors.  An update that raises ends the
\* thread.
Body(t, sens, ts) ==
  /\ t \in DOMAIN thr /\ thr[t].pc = "body"
  /\ clock' = ts
  /\ LET ref1 == Reference(reference1_mode, sens[2], reference1)
         ref2 == Reference(reference2_mode, sens[4], reference2)
         f1   == UpdateFails(controller1, period)
         ch1  == Channel(controller1, sens[1], ref1, period, motor1_pwm, motor1_dir)
         f2   == f1 \/ UpdateFails(controller2, period)
         ch2  == Channel(controller2, sens[3], ref2, period, motor2_pwm, motor2_dir)
         row  == <<N(ts), N(sens[1]), ref1, ch1.pwm, N(sens[3]), ref2, ch2.pwm>>
     IN  /\ IF f1 THEN UNCHANGED <<controller1, motor1_pwm, motor1_dir>>
               ELSE /\ controller1' = ch1.alg
                    /\ motor1_pwm' = ch1.mpwm /\ motor1_dir' = ch1.mdir
         /\ IF f2 THEN UNCHANGED <<controller2, motor2_pwm, motor2_dir>>
               ELSE /\ controller2' = ch2.alg
                    /\ motor2_pwm' = ch2.mpwm /\ motor2_dir' = ch2.mdir
         /\ IF f2 THEN Ends(t, timers, timer)
               ELSE /\ Goto(t, [thr[t] EXCEPT !.pc = "log", !.row = row])
                    /\ timers' = timers
  /\ UNCHANGED <<ctlLoop, ctlLog, ctlRef, sessVars, hist, ticks, calls,
                 snapshot, applied>>

\* _run: self.data[self.current, :] = (...); IndexError ends the thread when
\* the cursor is outside the rows.
Log(t) ==
  /\ t \in DOMAIN thr /\ thr[t].pc = "log"
  /\ IF current >= Capacity
     THEN /\ Ends(t, timers, timer)
          /\ UNCHANGED <<data, hist>>
     ELSE /\ data' = [data EXCEPT ![current + 1] = thr[t].row]
          /\ hist' = Append(hist, thr[t].row)
          /\ Goto(t, [thr[t] EXCEPT !.pc = "test"])
          /\ timers' = timers
  /\ UNCHANGED <<ctlLoop, page, current, time_origin, ctlMotor, ctlAlg, ctlRef,
                 clock, sessVars, ticks, calls, snapshot, applied>>

\* _run: if self.current < self.data.shape[0] - 1
Test(t) ==
  /\ t \in DOMAIN thr /\ thr[t].pc = "test"
  /\ Goto(t, [thr[t] EXCEPT !.pc = IF current < Capacity - 1 THEN "inc_load"
                                   ELSE "wrap"])
  /\ UNCHANGED <<ctlVars, envVars, sessVars, hist, ticks, calls, snapshot,
                 applied>>

\* _run: self.current += 1, the load
IncLoad(t) ==
  /\ t \in DOMAIN thr /\ thr[t].pc = "inc_load"
  /\ Goto(t, [thr[t] EXCEPT !.pc = "inc_store", !.cur = current])
  /\ UNCHANGED <<ctlVars, envVars, sessVars, hist, ticks, calls, snapshot,
                 applied>>

\* _run: self.current += 1, the store
IncStore(t) ==
  /\ t \in DOMAIN thr /\ thr[t].pc = "inc_store"
  /\ current' = thr[t].cur + 1
  /\ Goto(t, [thr[t] EXCEPT !.pc = "echo", !.cur = 0])
  /\ UNCHANGED <<ctlLoop, data, page, time_origin, ctlMotor, ctlAlg, ctlRef,
                 envVars, sessVars, hist, ticks, calls, snapshot, applied>>

\* _run: self.current = 0
Wrap(t) ==
  /\ t \in DOMAIN thr /\ thr[t].pc = "wrap"
  /\ current' = 0
  /\ Goto(t, [thr[t] EXCEPT !.pc = "page_load"])
  /\ UNCHANGED <<ctlLoop, data, page, time_origin, ctlMotor, ctlAlg, ctlRef,
                 envVars, sessVars, hist, ticks, calls, snapshot, applied>>

\* _run: self.page += 1, the load
PageLoad(t) ==
  /\ t \in DOMAIN thr /\ thr[t].pc = "page_load"
  /\ Goto(t, [thr[t] EXCEPT !.pc = "page_store", !.pg = page])
  /\ UNCHANGED <<ctlVars, envVars, sessVars, hist, ticks, calls, snapshot,
                 applied>>

\* _run: self.page += 1, the store
PageStore(t) ==
  /\ t \in DOMAIN thr /\ thr[t].pc = "page_store"
  /\ page' = thr[t].pg + 1
  /\ Goto(t, [thr[t] EXCEPT !.pc = "echo", !.pg = 0])
  /\ UNCHANGED <<ctlLoop, data, current, time_origin, ctlMotor, ctlAlg, ctlRef,
                 envVars, sessVars, hist, ticks, calls, snapshot, applied>>

\* _run: the echo, after which _run returns and the Timer thread is over.
Echo(t) ==
  /\ t \in DOMAIN thr /\ thr[t].pc = "echo"
  /\ echo_counter' = EchoCount(echo, echo_counter)
  /\ Ends(t, timers, timer)
  /\ UNCHANGED <<period, echo, timer, is_running, ctlLog, ctlMotor, ctlAlg,
                 ctlRef, clock, sessVars, hist, ticks, calls, snapshot, applied>>

\* The calling thread calls start(): the header is printed, _start() follows.
CallStart ==
  /\ main.pc = "idle" /\ main.ops < MaxOps
  /\ main' = [pc |-> "start_test", done |-> "", ops |-> main.ops + 1]
  /\ UNCHANGED <<ctlVars, envVars, thr, sessVars, hist, ticks, calls, snapshot,
                 applied>>

\* The calling thread calls stop().
CallStop ==
  /\ main.pc = "idle" /\ main.ops < MaxOps
  /\ main' = [pc |-> "stop_cancel", done |-> "", ops |-> main.ops + 1]
  /\ UNCHANGED <<ctlVars, envVars, thr, sessVars, hist, ticks, calls, snapshot,
                 applied>>

\* stop: self._timer.cancel(); AttributeError when no timer was ever armed.
StopCancel ==
  /\ main.pc = "stop_cancel"
  /\ IF timer = NoTimer
     THEN /\ main' = [main EXCEPT !.pc = "idle"]
          /\ timers' = timers
     ELSE /\ main' = [main EXCEPT !.pc = "stop_flag"]
          /\ timers' = Cancel(timers, timer)
  /\ UNCHANGED <<ctlVars, clock, thr, sessVars, hist, ticks, calls, snapshot,
                 applied>>

\* stop: self.is_running = False, and stop() returns.
StopFlag ==
  /\ main.pc = "stop_flag"
  /\ is_running' = FALSE
  /\ main' = [main EXCEPT !.pc = "idle", !.done = "stop"]
  /\ UNCHANGED <<period, echo, echo_counter, timer, ctlLog, ctlMotor, ctlAlg,
                 ctlRef, envVars, thr, sessVars, hist, ticks, calls, snapshot,
                 applied>>

NextThreads ==
  \/ CallStart
  \/ CallStop
  \/ StopCancel
  \/ StopFlag
  \/ \E th \in Threads : StartTest(th)
  \/ \E th \in Threads : StartNew(th)
  \/ \E th \in Threads : StartStart(th)
  \/ \E th \in Threads : StartFlag(th)
  \/ \E t \in Waiting : Fire(t)
  \/ \E t \in DOMAIN thr : RunFlag(t)
  \/ \E t \in DOMAIN thr, sens \in ThreadSensors, ts \in ClockReadings :
       Body(t, sens, ts)
  \/ \E t \in DOMAIN thr : Log(t)
  \/ \E t \in DOMAIN thr : Test(t)
  \/ \E t \in DOMAIN thr : IncLoad(t)
  \/ \E t \in DOMAIN thr : IncStore(t)
  \/ \E t \in DOMAIN thr : Wrap(t)
  \/ \E t \in DOMAIN thr : PageLoad(t)
  \/ \E t \in DOMAIN thr : PageStore(t)
  \/ \E t \in DOMAIN thr : Echo(t)

SpecThreads == InitThreads /\ [][NextThreads]_vars

\* ------------------------------------------- properties of SpecThreads
\* The Timer threads inside the tick body: the sensors are read and the log
\* cursor is not yet advanced.
InTickBody ==
  { t \in DOMAIN thr :
      thr[t].pc \in {"log", "test", "inc_load", "inc_store", "wrap",
                     "page_load", "page_store"} }

\* C5: ticks of one loop never overlap: at most one execution of the tick
\* body of a Controller is in progress in every reachable state, whatever the
\* duration of the body relative to the period.
C5_TicksNeverOverlap == Cardinality(InTickBody) <= 1

\* Timers that will still fire or run: created, waiting or running.
Pending == {t \in DOMAIN timers : timers[t] \in {"created", "waiting", "running"}}

\* C6: once stop() has returned on a started loop and every tick that was
\* executing has finished, the running flag is false and no timer is pending
\* (so no further tick fires until start() is called again).
C6_StopStopsTheLoop ==
  (main.pc = "idle" /\ main.done = "stop" /\ thr = << >>)
    => (~is_running /\ Pending = {})

Min(a, b) == IF a < b THEN a ELSE b

\* C8: with capacity c >= 1 the cursor stays in 0..c-1 in every reachable
\* state and, after n appends since the last reset (no append under way),
\* current = n mod c, page = floor(n / c) and get_log() returns min(n, c)
\* rows.
C8_CursorInvariant ==
  LET c == Capacity
      n == Len(hist)
  IN  c >= 1 =>
        /\ 0 <= current /\ current < c
        /\ thr = << >> =>
             /\ current = n % c
             /\ page = n \div c
             /\ Len(get_log) = Min(n, c)

\* ------------------------------------ more properties of SpecAlgo
\* The measurement of the update before the last one applied, 0 for the first.
PreviousMeasurement ==
  IF applied = <<>> THEN Zero ELSE applied[Len(applied)].measurement

\* C11: an update of a VelocityController constructed fresh (previous
\* measurement 0) with measurement m_i computes (m_i - m_{i-1}) / T, m_0 / T at
\* the first step, stores it in .velocity, passes it to the inner controller's
\* update with the same reference and period, and returns the inner result.
C11_VelocityIsDifference ==
  [][(controller1.kind = "Velocity" /\ Len(applied') = Len(applied) + 1)
       => LET a        == applied'[Len(applied')]
              velocity == RDiv(RSub(a.measurement, PreviousMeasurement), period)
              inner    == update(controller1.controller, velocity, a.reference,
                                 period)
          IN  /\ controller1'.velocity = velocity
              /\ controller1'.controller = inner[2]
              /\ a.result = inner[1]]_vars

\* A velocity controller around a proportional one saw 30 and then 0 at
\* period 5: the velocity is -6 and the result 50 - (-6).
C11_Witness ==
  /\ controller1.kind = "Velocity" /\ controller1.controller.kind = "Proportional"
  /\ period = N(5) /\ Len(applied) = 2
  /\ applied[1].measurement = N(30) /\ applied[2].measurement = N(0)
  /\ applied[2].reference = N(50)
  /\ controller1.velocity = N(-6) /\ applied[2].result = N(56)

\* --------------------------------- more properties of SpecSession
\* C12: processing Command C toggles the loop: on a stopped scheduler it
\* starts it, so that the loop is flagged running with a tick scheduled (and
\* rows get logged), and on a running scheduler it stops it.
C12_CommandCStartsLoop ==
  [][(nread' > nread /\ last'.called = "start_stop_controller")
       => /\ is_running' = ~is_running
          /\ is_running' => Waiting' # {}]_vars

\* C13: Command P followed by an Integer argument frame n sets the period to
\* n and changes nothing else of the controller (the log buffer, its cursor
\* and page and the running flag stay as they were); no response frame is
\* written, the only frame written is Acknowledge(P).
C13_CommandPSetsPeriodOnly ==
  [][( /\ nread' > nread
       /\ Len(last'.frames) = 2
       /\ last'.frames[1] = pack("C", Str("P"))
       /\ last'.frames[2].tag = "I" )
      => /\ period' = last'.frames[2].value
         /\ UNCHANGED <<echo, echo_counter, timer, is_running, ctlLog, ctlMotor,
                        ctlAlg, ctlRef, timers>>
         /\ last'.called = "set_period"
         /\ last'.written = <<pack("A", Str("P"))>>
         /\ wfile' = Append(wfile, pack("A", Str("P")))]_vars

\* Command P with Integer 50 was served: the period is 50, the log still has
\* the two rows allocated for period 5, and the only frame written is the
\* acknowledge.
C13_Witness ==
  /\ last.frames = <<pack("C", Str("P")), pack("I", N(50))>>
  /\ period = N(50) /\ Capacity = 2 /\ current = 0 /\ page = 0 /\ ~is_running
  /\ wfile = <<pack("A", Str("P"))>>

\* The codes the specification's command table lists with argument type none.
NoArgumentCodes == {"e", "H", "s", "R", "Z", "V", "M", "O", "C", "r", "X"}

\* C14: for a command code listed with argument type none the dispatcher
\* consumes one frame, the command frame, and invokes the bound operation
\* with no argument; for every other code of the table it consumes exactly one
\* more frame as the argument.  Command Z yields Acknowledge(Z) alone.
C14_ArgumentFramesConsumed ==
  ProcessedTableCommand
    => LET code == last.frames[1].value[1]
       IN  /\ code \in NoArgumentCodes
             => /\ Len(last.frames) = 1
                /\ last.called = commands[code][2]
           /\ code \notin NoArgumentCodes => Len(last.frames) = 2
           /\ code = "Z" => last.written = <<pack("A", Str("Z"))>>

\* C15: the bound operation of a command that expects an Integer, Float or
\* String argument is never invoked with the value of a frame whose tag is not
\* the expected one.
C15_ArgumentTagMatches ==
  (last.called # "" /\ Len(last.frames) = 2)
    => last.frames[2].tag = commands[last.frames[1].value[1]][1]

\* ------------------------------------------ more properties of Spec
\* C16: the period of a constructed Controller is strictly positive in every
\* reachable state: no operation, set_period included, leaves it zero or
\* negative, so no tick divides by a non-positive period.
C16_PeriodPositive == RLt(Zero, period)

\* --------------------------------------------- the logger, one caller
\* A client that configures the logger around runs of the loop, as
\* test_client.py does: reset_logger, set_logger, set_period and get_log
\* between start() and stop().
LogDurations == {N(4), N(16)}

NextLogger ==
  \/ start
  \/ stop
  \/ \E t \in Waiting, sens \in SensorReadings, ts \in ClockReadings :
       Tick(t, sens, ts)
  \/ calls < MaxLogCalls /\ \E v \in NewPeriods : set_period(v)
  \/ calls < MaxLogCalls /\ \E ts \in ClockReadings : reset_logger(ts)
  \/ calls < MaxLogCalls /\ \E d \in LogDurations, ts \in ClockReadings :
                              set_logger(d, ts)
  \/ calls < MaxLogCalls /\ GetLog

SpecLogger == Init /\ [][NextLogger]_vars

\* ------------------------------------------- properties of SpecLogger
\* The greatest integer not above a (the denominator is positive).
Floor(a) == a[1] \div a[2]

ReferenceModes == {0, 1}
TickPeriods == {N(5)}

AssignReference1Mode(value) ==
  /\ calls' = calls + 1
  /\ reference1_mode' = value
  /\ UNCHANGED <<ctlLoop, ctlLog, ctlMotor, ctlAlg, reference1, reference2_mode,
                 reference2, envVars, thrVars, sessVars, hist, ticks, snapshot,
                 applied>>

AssignReference2Mode(value) ==
  /\ calls' = calls + 1
  /\ reference2_mode' = value
  /\ UNCHANGED <<ctlLoop, ctlLog, ctlMotor, ctlAlg, reference1_mode, reference1,
                 reference2, envVars, thrVars, sessVars, hist, ticks, snapshot,
                 applied>>

InitTick ==
  /\ \E T \in TickPeriods : Constructed(T)
  /\ ThreadsAtRest
  /\ SessionAtRest

NextTick ==
  \/ start
  \/ \E t \in Waiting, sens \in SensorReadings, ts \in ClockReadings :
       Tick(t, sens, ts)
  \/ calls < MaxTickCalls /\ \E v \in ReferenceModes : AssignReference1Mode(v)
  \/ calls < MaxTickCalls /\ \E v \in ReferenceModes : AssignReference2Mode(v)
  \/ calls < MaxTickCalls /\ \E a \in Algorithms : set_controller1(a)
  \/ calls < MaxTickCalls /\ \E a \in Algorithms : set_controller2(a)
  \/ calls < MaxTickCalls /\ \E v \in References : set_reference1(v)
  \/ calls < MaxTickCalls /\ \E v \in References : set_reference2(v)

SpecTick == InitTick /\ [][NextTick]_vars

\* --------------------------------------------- properties of SpecTick
\* v limited to [-100, 100].
Saturated(v) ==
  IF RLt(N(100), v) THEN N(100) ELSE IF RLt(v, N(-100)) THEN N(-100) ELSE v

\* What a tick did on one channel: mode, ref, alg, mpwm and mdir are the
\* channel's reference mode, software reference, algorithm and motor before
\* the tick, pot the potentiometer reading, and m, r, a the measurement,
\* reference and actuation of the row it logged.
ChannelLogged(mode, ref, alg, pot, m, r, a, mpwm, mdir, mpwmAfter, mdirAfter) ==
  /\ r = (IF mode = 1 THEN N(pot) ELSE ref)
  /\ alg # NoAlgorithm => a = Saturated(update(alg, m, r, period)[1])
  /\ alg = NoAlgorithm => a = Zero /\ mpwmAfter = mpwm /\ mdirAfter = mdir

\* C18: a tick (that raises nothing) appends exactly one row (timestamp,
\* measurement1, reference1, actuation1, measurement2, reference2,
\* actuation2); per channel the reference is the potentiometer reading in
\* potentiometer mode and the software reference otherwise, the actuation is
\* the clamped output of the bound algorithm, and a channel without an
\* algorithm logs 0 and leaves its motor's magnitude and direction unchanged.
C18_TickAppendsRow ==
  [][(ticks' = ticks + 1 /\ Capacity >= 1 /\ RLt(Zero, period))
       => LET row == data'[current + 1]
          IN  /\ hist' = Append(hist, row)
              /\ \A i \in 1..Capacity : i # current + 1 => data'[i] = data[i]
              /\ Len(row) = 7
              /\ row[1] = N(clock')
              /\ \E sens \in SensorReadings :
                   /\ row[2] = N(sens[1]) /\ row[5] = N(sens[3])
                   /\ ChannelLogged(reference1_mode, reference1, controller1,
                                    sens[2], row[2], row[3], row[4],
                                    motor1_pwm, motor1_dir,
                                    motor1_pwm', motor1_dir')
                   /\ ChannelLogged(reference2_mode, reference2, controller2,
                                    sens[4], row[5], row[6], row[7],
                                    motor2_pwm, motor2_dir,
                                    motor2_pwm', motor2_dir')]_vars

\* Channel 2 was driven by a proportional controller (software reference 0,
\* measurement 30, actuation -60); with its algorithm removed the next tick
\* logged actuation 0 and left the motor at magnitude 60, direction -1.
C18_Witness ==
  /\ Len(hist) = 2 /\ calls = 2
  /\ controller2 = NoAlgorithm
  /\ hist[1][5] = N(30) /\ hist[1][6] = Zero /\ hist[1][7] = N(-60)
  /\ hist[2][7] = Zero
  /\ motor2_pwm = N(60) /\ motor2_dir = -1

\* ------------------------------------ more properties of SpecThreads
\* C19: at most one started timer is waiting to fire in every reachable
\* state, under any interleaving of start(), stop() and firing ticks: the loop
\* never splits into two chains of ticks that re-arm themselves.
C19_OneTimerPending == Cardinality(Waiting) <= 1

\* ------------------------------------ get_log beside the running loop
\* A thread other than the Timer threads calls get_log() while the loop
\* runs.  get_log() is not atomic: it loads self.page, then self.current for
\* each slice it takes; the slices are views of self.data, copied when
\* numpy.vstack runs.  Ticks are taken whole here (a tick shorter than the
\* period that is not interrupted), between any two steps of get_log().
\* The caller's locals: first is self.current as loaded for the slice
\* data[current:], second as loaded for data[:current].
Reader(pc, first, second) ==
  [pc |-> pc, done |-> "", ops |-> 0, first |-> first, second |-> second]

\* The caller calls get_log().
GetLogCall ==
  /\ main.pc = "idle" /\ calls < MaxCalls
  /\ calls' = calls + 1
  /\ main' = Reader("log_page", 0, 0)
  /\ UNCHANGED <<ctlVars, envVars, thr, sessVars, hist, ticks, snapshot,
                 applied>>

\* get_log: if self.page == 0
GetLogPage ==
  /\ main.pc = "log_page"
  /\ main' = Reader(IF page = 0 THEN "log_head" ELSE "log_upper", 0, 0)
  /\ UNCHANGED <<ctlVars, envVars, thr, sessVars, hist, ticks, calls, snapshot,
                 applied>>

\* get_log: return self.data[:self.current,:]
GetLogHead ==
  /\ main.pc = "log_head"
  /\ snapshot' = SubSeq(data, 1, current)
  /\ main' = [IdleThread EXCEPT !.done = "get_log"]
  /\ UNCHANGED <<ctlVars, envVars, thr, sessVars, hist, ticks, calls, applied>>

\* get_log: self.data[self.current:,:], the first argument of vstack
GetLogUpper ==
  /\ main.pc = "log_upper"
  /\ main' = Reader("log_lower", current, 0)
  /\ UNCHANGED <<ctlVars, envVars, thr, sessVars, hist, ticks, calls, snapshot,
                 applied>>

\* get_log: self.data[:self.current,:], the second argument of vstack
GetLogLower ==
  /\ main.pc = "log_lower"
  /\ main' = Reader("log_stack", main.first, current)
  /\ UNCHANGED <<ctlVars, envVars, thr, sessVars, hist, ticks, calls, snapshot,
                 applied>>

\* get_log: numpy.vstack copies the rows the two views show now
GetLogStack ==
  /\ main.pc = "log_stack"
  /\ snapshot' = SubSeq(data, main.first + 1, Len(data))
                   \o SubSeq(data, 1, main.second)
  /\ main' = [IdleThread EXCEPT !.done = "get_log"]
  /\ UNCHANGED <<ctlVars, envVars, thr, sessVars, hist, ticks, calls, applied>>

NextSnapshot ==
  \/ start
  \/ \E t \in Waiting, sens \in SensorReadings, ts \in ClockReadings :
       Tick(t, sens, ts)
  \/ GetLogCall
  \/ GetLogPage
  \/ GetLogHead
  \/ GetLogUpper
  \/ GetLogLower
  \/ GetLogStack

SpecSnapshot == Init /\ [][NextSnapshot]_vars

\* ----------------------------------------- properties of SpecSnapshot
\* C20: what get_log() returns to a thread that calls it while ticks append
\* has at most capacity rows, in strictly increasing timestamp order (so no
\* row twice), under every interleaving of its reads with the ticks.
C20_SnapshotConsistent ==
  main.done = "get_log"
    => (Len(snapshot) <= Capacity /\ Increasing(snapshot))

\* ------------------------------------------ the loop and faulting ticks
\* A running loop whose configuration makes the tick body raise: a PID or
\* Velocity algorithm with the period set to 0 (ZeroDivisionError in update),
\* or a logger of no rows (IndexError in the row write).  A started Timer
\* that is not cancelled fires after its interval: the firing of a waiting
\* timer is weakly fair (threading.Timer.run waits for the interval and then
\* calls the function unless cancel() was called).
FaultPeriods == {N(4), N(5)}
FaultAlgorithms ==
  { PIDController(Rat(1, 2), N(1), N(1), N(1)),
    VelocityController(ProportionalController(N(1), N(1))) }

InitFault ==
  /\ \E T \in FaultPeriods : Constructed(T)
  /\ ThreadsAtRest
  /\ SessionAtRest

TickFires ==
  \E t \in Waiting, sens \in ThreadSensors, ts \in ClockReadings :
    Tick(t, sens, ts)

NextFault ==
  \/ start
  \/ stop
  \/ TickFires
  \/ calls < MaxFaultCalls /\ \E v \in NewPeriods : set_period(v)
  \/ calls < MaxFaultCalls /\ \E d \in Durations, ts \in ClockReadings :
                                set_logger(d, ts)
  \/ calls < MaxFaultCalls /\ \E a \in FaultAlgorithms : set_controller1(a)

\* A step in which a waiting timer fires: the steps of TickFires are the only
\* ones that count a tick.
TimerFires == Waiting # {} /\ ticks < MaxTicks /\ ticks' = ticks + 1

SpecFault == InitFault /\ [][NextFault]_vars /\ WF_ticks(TimerFires)

\* ------------------------------------------- properties of SpecFault
\* The body of a tick fired in this state raises.
BodyFaults ==
  \/ UpdateFails(controller1, period)
  \/ UpdateFails(controller2, period)
  \/ current >= Capacity

====
